---- MODULE Spec2Model ----
(***************************************************************************)
(* A model of spartacus/src/row_data.py: the RowData record of one dataset *)
(* row, its validation (check_joint_validity,                              *)
(* check_segments_correction_validity), the transform bound by             *)
(* set_rotation_correction_callback and the expansion of the series by     *)
(* to_angle_series_dataframe.                                              *)
(*                                                                         *)
(* Python values.  An attribute that may be None is a sequence of length   *)
(* 0 (None) or 1 (the value): PyNone, Some(v).  A tri-state flag is        *)
(* PyNone, PyTrue or PyFalse.  Angles are whole quarter turns, so that     *)
(* every rotation matrix is an integer matrix and the matrix products of   *)
(* the pipeline are computed exactly.                                      *)
(***************************************************************************)
EXTENDS Integers, Sequences, FiniteSets, TLC

VARIABLES row, self, ret, call

vars == <<row, self, ret, call>>

----------------------------------------------------------------------------
(* Python's None, booleans and `and`.                                      *)

PyNone == <<>>

Some(v) == <<v>>

PyTrue == <<TRUE>>

PyFalse == <<FALSE>>

PyBool(b) == IF b THEN PyTrue ELSE PyFalse

TriState == {PyNone, PyTrue, PyFalse}

Val(opt) == opt[1]

\* `a and b` on tri-state values: a when a is falsy (None, False), else b.
PyAnd(a, b) == IF a = PyTrue THEN b ELSE a

----------------------------------------------------------------------------
(* The closed vocabularies (enums.py).                                     *)

Segment == {"thorax", "clavicle", "scapula", "humerus"}

JointType == {"glenohumeral", "scapulothoracic", "acromioclavicular", "sternoclavicular"}

Correction == {"TO_ISB_ROTATION", "TO_ISB_LIKE_ROTATION",
               "SCAPULA_KOLZ_AC_TO_PA_ROTATION", "SCAPULA_KOLZ_GLENOID_TO_PA_ROTATION"}

EulerSequence == {"xyx", "xzx", "xyz", "xzy", "yxy", "yzx", "yxz", "yzy", "zxz", "zxy", "zyz", "zyx"}

\* The pandas cell values of a boolean-like column: the strings "true", "false"
\* and "nan", the booleans, a float NaN and a missing value.
BoolCell == {"str_true", "str_false", "str_nan", "True", "False", "NaN", "None"}

\* The cell of a correction column: the string "nan", a float NaN, a missing
\* value, or a comma-separated string (its items, in order).
NanCell == [kind |-> "str_nan", items |-> <<>>]

FloatNanCell == [kind |-> "NaN", items |-> <<>>]

MissingCell == [kind |-> "None", items |-> <<>>]

StrCell(items) == [kind |-> "str", items |-> items]

----------------------------------------------------------------------------
(* 3x3 integer matrices, as sequences of rows.                             *)

Identity3 == <<<<1, 0, 0>>, <<0, 1, 0>>, <<0, 0, 1>>>>

Dot(A, B, i, j) == A[i][1] * B[1][j] + A[i][2] * B[2][j] + A[i][3] * B[3][j]

MatMul(A, B) ==
    <<<<Dot(A, B, 1, 1), Dot(A, B, 1, 2), Dot(A, B, 1, 3)>>,
      <<Dot(A, B, 2, 1), Dot(A, B, 2, 2), Dot(A, B, 2, 3)>>,
      <<Dot(A, B, 3, 1), Dot(A, B, 3, 2), Dot(A, B, 3, 3)>>>>

Transpose(A) ==
    <<<<A[1][1], A[2][1], A[3][1]>>,
      <<A[1][2], A[2][2], A[3][2]>>,
      <<A[1][3], A[2][3], A[3][3]>>>>

\* The sequence f[1], ..., f[n] of a function on 1..n.
RECURSIVE ToSeq(_, _)
ToSeq(f, n) == IF n = 0 THEN <<>> ELSE Append(ToSeq(f, n - 1), f[n])

Det(A) == A[1][1] * (A[2][2] * A[3][3] - A[2][3] * A[3][2])
        - A[1][2] * (A[2][1] * A[3][3] - A[2][3] * A[3][1])
        + A[1][3] * (A[2][1] * A[3][2] - A[2][2] * A[3][1])

\* cos and sin of q quarter turns.
Cos4(q) == CASE q % 4 = 0 -> 1 [] q % 4 = 1 -> 0 [] q % 4 = 2 -> -1 [] OTHER -> 0

Sin4(q) == CASE q % 4 = 0 -> 0 [] q % 4 = 1 -> 1 [] q % 4 = 2 -> 0 [] OTHER -> -1

\* The elemental rotation of q quarter turns about one axis.
ElementalRotation(axis, q) ==
    LET c == Cos4(q)
        s == Sin4(q)
    IN  CASE axis = "x" -> <<<<1, 0, 0>>, <<0, c, -s>>, <<0, s, c>>>>
          [] axis = "y" -> <<<<c, 0, s>>, <<0, 1, 0>>, <<-s, 0, c>>>>
          [] OTHER      -> <<<<c, -s, 0>>, <<s, c, 0>>, <<0, 0, 1>>>>

\* The letters of a sequence name.
Letters(seq) ==
    CASE seq = "xyx" -> <<"x", "y", "x">> [] seq = "xzx" -> <<"x", "z", "x">>
      [] seq = "xyz" -> <<"x", "y", "z">> [] seq = "xzy" -> <<"x", "z", "y">>
      [] seq = "yxy" -> <<"y", "x", "y">> [] seq = "yzx" -> <<"y", "z", "x">>
      [] seq = "yxz" -> <<"y", "x", "z">> [] seq = "yzy" -> <<"y", "z", "y">>
      [] seq = "zxz" -> <<"z", "x", "z">> [] seq = "zxy" -> <<"z", "x", "y">>
      [] seq = "zyz" -> <<"z", "y", "z">> [] OTHER       -> <<"z", "y", "x">>

\* Stage 1, reconstruct: the intrinsic rotation of the declared sequence.
RotationFromEulerAngles(rot, seq) ==
    LET l == Letters(seq)
    IN  MatMul(MatMul(ElementalRotation(l[1], rot[1]), ElementalRotation(l[2], rot[2])),
               ElementalRotation(l[3], rot[3]))

----------------------------------------------------------------------------
(* BiomechCoordinateSystem (biomech_system.py).  An axis label is a signed *)
(* ISB direction: 1 antero-posterior, 2 infero-superior, 3 medio-lateral,  *)
(* negative for the opposite direction.                                    *)

\* The origin each segment has in the ISB recommendation.
IsbOrigin(segment) ==
    CASE segment = "thorax"   -> "IJ"
      [] segment = "clavicle" -> "SC"
      [] segment = "scapula"  -> "AA"
      [] OTHER                -> "GH"

Abs(n) == IF n < 0 THEN -n ELSE n

Sign(n) == IF n < 0 THEN -1 ELSE 1

BiomechCoordinateSystem(axes, origin, segment) ==
    [axes |-> axes, origin |-> origin, segment |-> segment]

is_isb_oriented(bsys) ==
    Abs(bsys.axes[1]) = 1 /\ Abs(bsys.axes[2]) = 2 /\ Abs(bsys.axes[3]) = 3

is_origin_on_an_isb_axis(bsys) == bsys.origin = IsbOrigin(bsys.segment)

\* The matrix whose columns are the frame's axes in the ISB basis.
AxisComponent(bsys, i, j) == IF Abs(bsys.axes[j]) = i THEN Sign(bsys.axes[j]) ELSE 0

get_rotation_matrix(bsys) ==
    <<<<AxisComponent(bsys, 1, 1), AxisComponent(bsys, 1, 2), AxisComponent(bsys, 1, 3)>>,
      <<AxisComponent(bsys, 2, 1), AxisComponent(bsys, 2, 2), AxisComponent(bsys, 2, 3)>>,
      <<AxisComponent(bsys, 3, 1), AxisComponent(bsys, 3, 2), AxisComponent(bsys, 3, 3)>>>>

is_direct(bsys) == Det(get_rotation_matrix(bsys)) = 1

----------------------------------------------------------------------------
(* The dataset row.  row.columns[segment] holds the columns of one segment *)
(* (get_segment_columns, get_correction_column, get_is_correctable_column, *)
(* get_is_isb_column); provided = FALSE when the four frame columns are    *)
(* all NaN.                                                                *)

SegmentColumns(provided, axes, origin, to_isb, is_correctable, is_isb) ==
    [provided |-> provided, axes |-> axes, origin |-> origin, to_isb |-> to_isb,
     is_correctable |-> is_correctable, is_isb |-> is_isb]

\* The columns of a segment the study does not describe.
NanColumns == SegmentColumns(FALSE, <<1, 2, 3>>, "nan", FloatNanCell, "NaN", "NaN")

parent_segment == row.parent

child_segment == row.child

----------------------------------------------------------------------------
(* The cell parsers of RowData.                                            *)

\* extract_corrections: None for "nan", NaN and a missing cell, else the list
\* of the comma-separated corrections, in order.
extract_corrections(segment) ==
    LET correction_cell == row.columns[segment].to_isb
    IN  IF correction_cell.kind = "str" THEN Some(correction_cell.items) ELSE PyNone

\* Python's truth value of a boolean-like cell: a non-empty string and a NaN
\* are true, None and False are false.
Truthy(cell) == cell \notin {"None", "False"}

\* extract_is_thorax_global returns the cell itself; its caller tests its truth.
extract_is_thorax_global(segment) == row.thorax_is_global

\* np.isnan raises TypeError on a string.
IsStringCell(cell) == cell \in {"str_true", "str_false", "str_nan"}

\* extract_is_correctable: the first test, `cell is not None and np.isnan(cell)`,
\* raises on every string cell, before the string comparisons are reached.
extract_is_correctable_raises(segment) ==
    IsStringCell(row.columns[segment].is_correctable)

extract_is_correctable(segment) ==
    LET cell == row.columns[segment].is_correctable
    IN  CASE cell = "NaN"   -> PyNone
          [] cell = "True"  -> PyTrue
          [] OTHER          -> PyFalse   \* False, and None through `if not cell`

\* extract_is_isb: the same tests on the is_isb column.
extract_is_isb_raises(segment) ==
    IsStringCell(row.columns[segment].is_isb)

extract_is_isb(segment) ==
    LET cell == row.columns[segment].is_isb
    IN  CASE cell = "NaN"   -> PyNone
          [] cell = "True"  -> PyTrue
          [] OTHER          -> PyFalse   \* False, and None through `if not cell`

----------------------------------------------------------------------------
(* The per-segment correction predicates.                                  *)

check_segment_has_no_correction(correction) == correction = PyNone

InList(c, correction) ==
    /\ correction # PyNone
    /\ \E i \in 1..Len(Val(correction)) : Val(correction)[i] = c

check_segment_has_to_isb_like_correction(correction) ==
    InList("TO_ISB_LIKE_ROTATION", correction)

----------------------------------------------------------------------------
(* check_segments_correction_validity, block by block.  Each operator      *)
(* takes the record as the previous block left it and returns it as this   *)
(* block leaves it.                                                        *)

Pbsys(s) == Val(s.parent_biomech_sys)

Cbsys(s) == Val(s.child_biomech_sys)

\* `if self.extract_is_thorax_global(self.parent_segment)` under
\* `if self.parent_segment == Segment.THORAX`.
ParentIsThoraxGlobal ==
    parent_segment = "thorax" /\ Truthy(extract_is_thorax_global(parent_segment))

\* The thorax-is-global block: the correctable flag alone decides.
ThoraxGlobalBlock(s) ==
    LET parent_correction == extract_corrections(parent_segment)
        parent_is_correctable == extract_is_correctable(parent_segment)
        parent_output ==
            CASE parent_is_correctable = PyTrue ->
                     check_segment_has_to_isb_like_correction(parent_correction)
              [] parent_is_correctable = PyFalse ->
                     check_segment_has_no_correction(parent_correction)
              [] OTHER -> TRUE
    IN  IF ParentIsThoraxGlobal
        THEN [s EXCEPT !.parent_segment_usable_for_rotation_data = PyBool(parent_output),
                       !.parent_segment_usable_for_translation_data = PyFalse,
                       !.parent_definition_risk = PyTrue]
        ELSE s

\* Parent, ISB-oriented and origin on an ISB axis: no correction may be declared.
ParentIsbOnAxisBlock(s) ==
    IF /\ is_isb_oriented(Pbsys(s))
       /\ is_origin_on_an_isb_axis(Pbsys(s))
       /\ ~ParentIsThoraxGlobal
    THEN [s EXCEPT !.parent_segment_usable_for_rotation_data =
                       PyBool(check_segment_has_no_correction(extract_corrections(parent_segment))),
                   !.parent_segment_usable_for_translation_data = PyFalse]
    ELSE s

ChildIsbOnAxisBlock(s) ==
    IF is_isb_oriented(Cbsys(s)) /\ is_origin_on_an_isb_axis(Cbsys(s))
    THEN [s EXCEPT !.child_segment_usable_for_rotation_data =
                       PyBool(check_segment_has_no_correction(extract_corrections(child_segment))),
                   !.child_segment_usable_for_translation_data = PyFalse]
    ELSE s

\* Parent, ISB-oriented and origin off the ISB axes.
ParentIsbOffAxisBlock(s) ==
    IF /\ is_isb_oriented(Pbsys(s))
       /\ ~is_origin_on_an_isb_axis(Pbsys(s))
       /\ ~ParentIsThoraxGlobal
    THEN [s EXCEPT !.parent_segment_usable_for_rotation_data = PyTrue,
                   !.parent_segment_usable_for_translation_data = PyFalse]
    ELSE s

\* ChildIsbOffAxisBlock as the spec words it: the risk is flagged for the scapula instead.
ChildIsbOffAxisBlock_ScapulaRisk(s) ==
    IF is_isb_oriented(Cbsys(s)) /\ ~is_origin_on_an_isb_axis(Cbsys(s))
    THEN [s EXCEPT !.child_definition_risk =
                       IF child_segment = "scapula" THEN PyTrue ELSE @,
                   !.child_segment_usable_for_rotation_data = PyTrue,
                   !.child_segment_usable_for_translation_data = PyFalse]
    ELSE s

\* Child, ISB-oriented and origin off the ISB axes: the definition risk is set
\* in the else branch of `if self.child_segment == Segment.SCAPULA`.
ChildIsbOffAxisBlock(s) ==
    IF is_isb_oriented(Cbsys(s)) /\ ~is_origin_on_an_isb_axis(Cbsys(s))
    THEN [s EXCEPT !.child_definition_risk =
                       IF child_segment = "scapula" THEN @ ELSE PyTrue,
                   !.child_segment_usable_for_rotation_data = PyTrue,
                   !.child_segment_usable_for_translation_data = PyFalse]
    ELSE s

\* Parent, not ISB-oriented and origin on an ISB axis.
ParentNotIsbOnAxisBlock(s) ==
    IF /\ ~is_isb_oriented(Pbsys(s))
       /\ is_origin_on_an_isb_axis(Pbsys(s))
       /\ ~ParentIsThoraxGlobal
    THEN [s EXCEPT !.parent_segment_usable_for_rotation_data = PyTrue,
                   !.parent_segment_usable_for_translation_data = PyFalse]
    ELSE s

\* ChildNotIsbOnAxisBlock with the strict rule: the to-ISB correction is enforced, as in
\* the lines the source comments out.
ChildNotIsbOnAxisBlock_Enforced(s) ==
    IF ~is_isb_oriented(Cbsys(s)) /\ is_origin_on_an_isb_axis(Cbsys(s))
    THEN [s EXCEPT !.child_segment_usable_for_rotation_data =
                       PyBool(\/ InList("TO_ISB_LIKE_ROTATION", extract_corrections(child_segment))
                              \/ InList("TO_ISB_ROTATION", extract_corrections(child_segment))),
                   !.child_segment_usable_for_translation_data = PyFalse]
    ELSE s

ChildNotIsbOnAxisBlock(s) ==
    IF ~is_isb_oriented(Cbsys(s)) /\ is_origin_on_an_isb_axis(Cbsys(s))
    THEN [s EXCEPT !.child_segment_usable_for_rotation_data = PyTrue,
                   !.child_segment_usable_for_translation_data = PyFalse]
    ELSE s

\* Parent, not ISB-oriented and origin off the ISB axes: both branches of
\* `if self.parent_segment == Segment.SCAPULA` make the same three assignments.
ParentNotIsbOffAxisBlock(s) ==
    IF /\ ~is_isb_oriented(Pbsys(s))
       /\ ~is_origin_on_an_isb_axis(Pbsys(s))
       /\ ~ParentIsThoraxGlobal
    THEN [s EXCEPT !.parent_segment_usable_for_rotation_data = PyTrue,
                   !.parent_segment_usable_for_translation_data = PyFalse,
                   !.parent_definition_risk = PyTrue]
    ELSE s

\* The else branch assigning the child's three fields as well as the parent's.
ChildNotIsbOffAxisBlock_BothSegments(s) ==
    IF ~is_isb_oriented(Cbsys(s)) /\ ~is_origin_on_an_isb_axis(Cbsys(s))
    THEN IF child_segment = "scapula"
         THEN [s EXCEPT !.child_segment_usable_for_rotation_data = PyTrue,
                        !.child_segment_usable_for_translation_data = PyFalse,
                        !.child_definition_risk = PyTrue]
         ELSE [s EXCEPT !.child_segment_usable_for_rotation_data = PyTrue,
                        !.child_segment_usable_for_translation_data = PyFalse,
                        !.child_definition_risk = PyTrue,
                        !.parent_segment_usable_for_rotation_data = PyTrue,
                        !.parent_segment_usable_for_translation_data = PyFalse,
                        !.parent_definition_risk = PyTrue]
    ELSE s

\* Child, not ISB-oriented and origin off the ISB axes: the scapula branch
\* assigns the child's three fields, the else branch assigns the PARENT's.
ChildNotIsbOffAxisBlock(s) ==
    IF ~is_isb_oriented(Cbsys(s)) /\ ~is_origin_on_an_isb_axis(Cbsys(s))
    THEN IF child_segment = "scapula"
         THEN [s EXCEPT !.child_segment_usable_for_rotation_data = PyTrue,
                        !.child_segment_usable_for_translation_data = PyFalse,
                        !.child_definition_risk = PyTrue]
         ELSE [s EXCEPT !.parent_segment_usable_for_rotation_data = PyTrue,
                        !.parent_segment_usable_for_translation_data = PyFalse,
                        !.parent_definition_risk = PyTrue]
    ELSE s

\* CombineBlock without the child: the parent's flag alone gives the rotation verdict.
CombineBlock_ParentOnly(s) ==
    [s EXCEPT !.usable_rotation_data = s.parent_segment_usable_for_rotation_data,
              !.usable_translation_data =
                  PyAnd(s.child_segment_usable_for_translation_data,
                        s.parent_segment_usable_for_translation_data)]

\* The final combination: `child and parent`, for rotation and for translation.
CombineBlock(s) ==
    [s EXCEPT !.usable_rotation_data =
                  PyAnd(s.child_segment_usable_for_rotation_data,
                        s.parent_segment_usable_for_rotation_data),
              !.usable_translation_data =
                  PyAnd(s.child_segment_usable_for_translation_data,
                        s.parent_segment_usable_for_translation_data)]

\* Lines 420-426: the corrections of both segments are stored on the record.
StoreParentCorrections(s) ==
    [s EXCEPT !.parent_corrections = extract_corrections(parent_segment)]

StoreChildCorrections(s) ==
    [s EXCEPT !.child_corrections = extract_corrections(child_segment)]

\* The eight frame blocks in the order of the source, then the combination.
FrameBlocks(s) ==
    CombineBlock(
    ChildNotIsbOffAxisBlock(ParentNotIsbOffAxisBlock(
    ChildNotIsbOnAxisBlock(ParentNotIsbOnAxisBlock(
    ChildIsbOffAxisBlock(ParentIsbOffAxisBlock(
    ChildIsbOnAxisBlock(ParentIsbOnAxisBlock(s)))))))))

----------------------------------------------------------------------------
(* The record after construction (RowData.__init__) and the bookkeeping of *)
(* the model: ret is the outcome of the last call (its name, whether it    *)
(* raised, what it returned), call the transform call in progress.         *)

InitSelf ==
    [joint |-> PyNone,
     right_side |-> TRUE,
     parent_biomech_sys |-> PyNone,
     parent_corrections |-> PyNone,
     child_biomech_sys |-> PyNone,
     child_corrections |-> PyNone,
     has_rotation_data |-> PyNone,
     has_translation_data |-> PyNone,
     parent_segment_usable_for_rotation_data |-> PyNone,
     child_segment_usable_for_rotation_data |-> PyNone,
     parent_segment_usable_for_translation_data |-> PyNone,
     child_segment_usable_for_translation_data |-> PyNone,
     parent_definition_risk |-> PyNone,
     child_definition_risk |-> PyNone,
     usable_rotation_data |-> PyNone,
     usable_translation_data |-> PyNone,
     euler_angles_correction_callback |-> PyNone,
     data |-> PyNone,
     corrected_data |-> PyNone,
     melted_data |-> PyNone]

\* No transform call in progress, none just finished.
IdleCall == [pc |-> "idle", rot |-> <<0, 0, 0>>, matrix |-> Identity3, trace |-> <<>>]

Returned(op, value) == [op |-> op, raised |-> FALSE, value |-> value]

Raised(op) == [op |-> op, raised |-> TRUE, value |-> PyNone]

left_side == ~self.right_side

----------------------------------------------------------------------------
(* check_joint_validity.                                                   *)

\* checks.check_is_euler_sequence_provided / check_is_translation_provided.
check_is_euler_sequence_provided == row.euler_sequence # PyNone

check_is_translation_provided == row.translation # PyNone

\* The segments a joint type links (checks.check_parent_child_joint).
JointParent(joint_type) ==
    CASE joint_type = "glenohumeral"      -> "scapula"
      [] joint_type = "scapulothoracic"   -> "thorax"
      [] joint_type = "acromioclavicular" -> "clavicle"
      [] OTHER                            -> "thorax"

JointChild(joint_type) ==
    CASE joint_type = "glenohumeral"      -> "humerus"
      [] joint_type = "scapulothoracic"   -> "scapula"
      [] joint_type = "acromioclavicular" -> "scapula"
      [] OTHER                            -> "clavicle"

check_parent_child_joint(joint) ==
    /\ JointParent(joint.joint_type) = row.parent
    /\ JointChild(joint.joint_type) = row.child

\* Joint(...): the three constructions of the source differ only in which of
\* the row's cells are None.
Joint ==
    [joint_type |-> row.joint,
     euler_sequence |-> row.euler_sequence,
     translation |-> row.translation]

\* check_joint_validity without the early return of lines 182-190.
check_joint_validity_WithoutEarlyReturn ==
    LET flagged == [self EXCEPT !.has_rotation_data = PyBool(check_is_euler_sequence_provided),
                                !.has_translation_data = PyBool(check_is_translation_provided)]
        output == /\ check_parent_child_joint(Joint)
                  /\ row.columns[parent_segment].provided
                  /\ row.columns[child_segment].provided
    IN  /\ call.pc = "idle"
        /\ self' = [flagged EXCEPT !.joint = Some(Joint)]
        /\ ret' = Returned("check_joint_validity", PyBool(output))
        /\ call' = IdleCall
        /\ UNCHANGED row

check_joint_validity ==
    LET no_euler_sequence == ~check_is_euler_sequence_provided
        no_translation == ~check_is_translation_provided
        flagged == [self EXCEPT !.has_rotation_data = PyBool(~no_euler_sequence),
                                !.has_translation_data = PyBool(~no_translation)]
        output == /\ check_parent_child_joint(Joint)
                  /\ row.columns[parent_segment].provided
                  /\ row.columns[child_segment].provided
    IN  /\ call.pc = "idle"
        /\ IF no_euler_sequence /\ no_translation
           THEN /\ self' = flagged
                /\ ret' = Returned("check_joint_validity", PyFalse)
           ELSE /\ self' = [flagged EXCEPT !.joint = Some(Joint)]
                /\ ret' = Returned("check_joint_validity", PyBool(output))
        /\ call' = IdleCall
        /\ UNCHANGED row

----------------------------------------------------------------------------
(* set_segments: both frames are built from the row's columns.  It is      *)
(* modelled for rows that provide the columns of their parent and child.   *)

SegmentFrame(segment) ==
    BiomechCoordinateSystem(row.columns[segment].axes, row.columns[segment].origin, segment)

set_segments ==
    /\ call.pc = "idle"
    /\ row.columns[parent_segment].provided
    /\ row.columns[child_segment].provided
    /\ self' = [self EXCEPT !.parent_biomech_sys = Some(SegmentFrame(parent_segment)),
                            !.child_biomech_sys = Some(SegmentFrame(child_segment))]
    /\ ret' = Returned("set_segments", PyNone)
    /\ call' = IdleCall
    /\ UNCHANGED row

----------------------------------------------------------------------------
(* check_segments_correction_validity.  It raises at line 422 when the     *)
(* parent's is_correctable cell is a string (after parent_corrections was  *)
(* stored) and at line 456 when set_segments has not run (after both       *)
(* corrections were stored and the thorax block has run).                  *)

check_segments_correction_validity ==
    LET s1 == StoreParentCorrections(self)
        s2 == ThoraxGlobalBlock(StoreChildCorrections(s1))
        s3 == FrameBlocks(s2)
    IN  /\ call.pc = "idle"
        /\ IF extract_is_correctable_raises(parent_segment)
           THEN /\ self' = s1
                /\ ret' = Raised("check_segments_correction_validity")
           ELSE IF s2.parent_biomech_sys = PyNone
           THEN /\ self' = s2
                /\ ret' = Raised("check_segments_correction_validity")
           ELSE /\ self' = s3
                /\ ret' = Returned("check_segments_correction_validity",
                                   <<s3.usable_rotation_data, s3.usable_translation_data>>)
        /\ call' = IdleCall
        /\ UNCHANGED row

----------------------------------------------------------------------------
(* The rows the specifications draw from.                                  *)

\* The longest list of corrections a cell of the validity rows declares.
MaxCorrections == 1

\* The sequences over S of length 1..n.
RECURSIVE SeqsUpTo(_, _)
SeqsUpTo(S, n) ==
    IF n = 0 THEN {}
    ELSE LET shorter == SeqsUpTo(S, n - 1)
         IN  {<<x>> : x \in S} \cup shorter \cup {Append(q, x) : q \in shorter, x \in S}

CorrectionCells(S, n) == {FloatNanCell} \cup {StrCell(q) : q \in SeqsUpTo(S, n)}

\* One frame of each class: ISB axes, and x lateral / y up / z backwards.
IsbAxes == <<1, 2, 3>>

LateralAxes == <<3, 2, -1>>

OffAxisOrigin == "GLENOID_CENTER_OFFSET"

FrameChoices(segment, axesSet, cells, correctable) ==
    {SegmentColumns(TRUE, a, o, c, k, "NaN") :
        a \in axesSet, o \in {IsbOrigin(segment), OffAxisOrigin}, c \in cells, k \in correctable}

\* A row of the joint parent -> child: the other segments are not described.
RowOf(parent, child, pcols, ccols, joint, euler, translation, global, side, series) ==
    [parent |-> parent, child |-> child,
     columns |-> [g \in Segment |-> IF g = parent THEN pcols
                                    ELSE IF g = child THEN ccols ELSE NanColumns],
     joint |-> joint, euler_sequence |-> euler, translation |-> translation,
     thorax_is_global |-> global, side |-> side, series |-> series]

ValidityCorrections == {"TO_ISB_LIKE_ROTATION", "TO_ISB_ROTATION"}

\* The rows of the validity specification: every parent and child segment,
\* every frame class of both, every declared list, the thorax flagged global
\* or not, the parent correctable, not correctable or unknown.
ValidityRowsOf(p, c) ==
    {RowOf(p, c, pc, cc, "glenohumeral", Some("xzy"), PyNone, g, "right", <<>>) :
        pc \in FrameChoices(p, {IsbAxes, LateralAxes},
                            CorrectionCells(ValidityCorrections, MaxCorrections),
                            {"True", "False", "NaN"}),
        cc \in FrameChoices(c, {IsbAxes, LateralAxes},
                            CorrectionCells(ValidityCorrections, MaxCorrections),
                            {"NaN"}),
        g \in {"True", "False"}}

----------------------------------------------------------------------------
(* The validity specification: one row, then set_segments and              *)
(* check_segments_correction_validity in any order, any number of times.   *)

InitValidity ==
    /\ \E p \in Segment : \E c \in Segment \ {p} : row \in ValidityRowsOf(p, c)
    /\ self = InitSelf
    /\ ret = Returned("__init__", PyNone)
    /\ call = IdleCall

NextValidity ==
    \/ set_segments
    \/ check_segments_correction_validity

SpecValidity == InitValidity /\ [][NextValidity]_vars

----------------------------------------------------------------------------
(* What the validity claims speak about.                                   *)

\* check_segments_correction_validity has just returned.
CheckReturned ==
    ret.op = "check_segments_correction_validity" /\ ~ret.raised

\* The frame class of a segment of the row.
RowIsb(segment) == is_isb_oriented(SegmentFrame(segment))

RowOnAxis(segment) == is_origin_on_an_isb_axis(SegmentFrame(segment))

Declared(segment) == extract_corrections(segment) # PyNone

\* The parent is judged by the four frame branches.
ParentByFrame == ~ParentIsThoraxGlobal

\* The child is a non-scapula segment, not ISB-oriented, origin off the axes.
ChildOtherNotIsbOffAxis ==
    child_segment # "scapula" /\ ~RowIsb(child_segment) /\ ~RowOnAxis(child_segment)

\* C2 (as claimed): an ISB-oriented segment with its origin on an ISB axis is
\* usable for rotation exactly when it declares no correction, and a declared
\* correction makes the returned usable_rotation_data not true.
C2_NoCorrectionOnIsbSegment ==
    CheckReturned =>
        /\ (RowIsb(child_segment) /\ RowOnAxis(child_segment)) =>
              /\ self.child_segment_usable_for_rotation_data = PyBool(~Declared(child_segment))
              /\ Declared(child_segment) => ret.value[1] # PyTrue
        /\ (RowIsb(parent_segment) /\ RowOnAxis(parent_segment) /\ ParentByFrame) =>
              /\ self.parent_segment_usable_for_rotation_data = PyBool(~Declared(parent_segment))
              /\ Declared(parent_segment) => ret.value[1] # PyTrue

\* Python's truth value of a tri-state flag.
IsTrue(flag) == flag = PyTrue

IsSet(flag) == flag # PyNone

\* C3: the returned pair is the conjunction of the per-segment flags the record
\* holds at return: its truth value is (parent and child), and it is that
\* boolean whenever both flags are set.
C3_VerdictIsConjunction ==
    CheckReturned =>
        /\ ret.value = <<self.usable_rotation_data, self.usable_translation_data>>
        /\ IsTrue(ret.value[1]) = (IsTrue(self.parent_segment_usable_for_rotation_data)
                                   /\ IsTrue(self.child_segment_usable_for_rotation_data))
        /\ IsTrue(ret.value[2]) = (IsTrue(self.parent_segment_usable_for_translation_data)
                                   /\ IsTrue(self.child_segment_usable_for_translation_data))
        /\ (IsSet(self.parent_segment_usable_for_rotation_data)
            /\ IsSet(self.child_segment_usable_for_rotation_data)) => IsSet(ret.value[1])
        /\ (IsSet(self.parent_segment_usable_for_translation_data)
            /\ IsSet(self.child_segment_usable_for_translation_data)) => IsSet(ret.value[2])

\* C3 witness: a returned verdict that is true for rotation, both flags set.
C3_Witness ==
    /\ CheckReturned
    /\ ret.value[1] = PyTrue
    /\ self.parent_segment_usable_for_rotation_data = PyTrue
    /\ self.child_segment_usable_for_rotation_data = PyTrue
    /\ ret.value[2] = PyFalse

\* C4 (as claimed): after the call both translation flags and the returned
\* usable_translation_data are the boolean False.
C4_TranslationAlwaysFalse ==
    CheckReturned =>
        /\ self.parent_segment_usable_for_translation_data = PyFalse
        /\ self.child_segment_usable_for_translation_data = PyFalse
        /\ ret.value[2] = PyFalse

\* C5 (as claimed): a segment that is neither ISB-oriented nor has its origin
\* on an ISB axis gets its own usable-for-rotation flag and its own
\* definition-risk flag set to True.
C5_NotIsbOffAxisOwnFlags ==
    CheckReturned =>
        /\ (~RowIsb(child_segment) /\ ~RowOnAxis(child_segment)) =>
              /\ self.child_segment_usable_for_rotation_data = PyTrue
              /\ self.child_definition_risk = PyTrue
        /\ (~RowIsb(parent_segment) /\ ~RowOnAxis(parent_segment) /\ ParentByFrame) =>
              /\ self.parent_segment_usable_for_rotation_data = PyTrue
              /\ self.parent_definition_risk = PyTrue

\* C6 (as claimed): for a segment ISB-oriented with its origin off the ISB
\* axes, the definition-risk flag is True iff the segment is the scapula, and
\* unset for every other segment.
C6_RiskOnlyForScapula ==
    CheckReturned =>
        /\ (RowIsb(child_segment) /\ ~RowOnAxis(child_segment)) =>
              self.child_definition_risk =
                  IF child_segment = "scapula" THEN PyTrue ELSE PyNone
        /\ (RowIsb(parent_segment) /\ ~RowOnAxis(parent_segment) /\ ParentByFrame) =>
              self.parent_definition_risk =
                  IF parent_segment = "scapula" THEN PyTrue ELSE PyNone

\* C6 (amended): in that branch the child's definition-risk flag is True iff
\* the child is NOT the scapula (unset for the scapula); the parent's branch
\* sets no flag for any segment: the parent's flag is True only when the
\* child's not-ISB / off-axis branch for a non-scapula child writes it.
C6_RiskForNonScapulaChild ==
    CheckReturned =>
        /\ (RowIsb(child_segment) /\ ~RowOnAxis(child_segment)) =>
              self.child_definition_risk =
                  IF child_segment = "scapula" THEN PyNone ELSE PyTrue
        /\ (RowIsb(parent_segment) /\ ~RowOnAxis(parent_segment) /\ ParentByFrame) =>
              self.parent_definition_risk =
                  IF ChildOtherNotIsbOffAxis THEN PyTrue ELSE PyNone

\* C6 witness: a non-scapula child, ISB-oriented, origin off the axes, flagged,
\* under a scapula parent of the same class, not flagged.
C6_Witness ==
    /\ CheckReturned
    /\ RowIsb(child_segment) /\ ~RowOnAxis(child_segment) /\ child_segment = "humerus"
    /\ RowIsb(parent_segment) /\ ~RowOnAxis(parent_segment) /\ parent_segment = "scapula"
    /\ self.child_definition_risk = PyTrue
    /\ self.parent_definition_risk = PyNone

\* The two lenient branches: exactly one of ISB-oriented / origin on an axis.
Lenient(segment) == RowIsb(segment) # RowOnAxis(segment)

ThoraxGlobalVerdict ==
    CASE extract_is_correctable(parent_segment) = PyTrue ->
             check_segment_has_to_isb_like_correction(extract_corrections(parent_segment))
      [] extract_is_correctable(parent_segment) = PyFalse ->
             ~Declared(parent_segment)
      [] OTHER -> TRUE

\* C8 (as claimed): for a thorax flagged global the parent's usable-for-rotation
\* flag is decided by the correctable flag alone, and parent_definition_risk
\* is True.
C8_ThoraxGlobalByCorrectable ==
    (CheckReturned /\ ParentIsThoraxGlobal) =>
        /\ self.parent_segment_usable_for_rotation_data = PyBool(ThoraxGlobalVerdict)
        /\ self.parent_definition_risk = PyTrue

----------------------------------------------------------------------------
(* The stages of the rotation transform (corrections/                      *)
(* angle_conversion_callbacks.py, corrections/kolz_matrices.py, joint.py). *)

\* The catalogue: one fixed rotation matrix per named correction.  The model
\* keeps them distinct, none the identity, inside the quarter-turn rotations.
get_kolz_rotation_matrix(correction) ==
    CASE correction = "TO_ISB_ROTATION"                -> ElementalRotation("y", 1)
      [] correction = "TO_ISB_LIKE_ROTATION"           -> ElementalRotation("x", 1)
      [] correction = "SCAPULA_KOLZ_AC_TO_PA_ROTATION" -> ElementalRotation("z", 1)
      [] OTHER                                         -> ElementalRotation("z", 3)

\* Reconstruct, then reframe in the ISB basis: F_parent^T . R . F_child.
isb_framed_rotation_matrix_from_euler_angles(rot, previous_sequence_str, bsys_parent, bsys_child) ==
    MatMul(MatMul(Transpose(get_rotation_matrix(bsys_parent)),
                  RotationFromEulerAngles(rot, previous_sequence_str)),
           get_rotation_matrix(bsys_child))

MedioLateralFlip == <<<<1, 0, 0>>, <<0, 1, 0>>, <<0, 0, -1>>>>

\* The handedness fix: conjugation by diag(1, 1, -1).
to_left_handed_frame(matrix) ==
    MatMul(MatMul(MedioLateralFlip, matrix), MedioLateralFlip)

\* The named corrections: C_parent . R . C_child.
set_corrections_on_rotation_matrix(matrix, child_matrix_correction, parent_matrix_correction) ==
    MatMul(MatMul(parent_matrix_correction, matrix), child_matrix_correction)

\* The ISB sequence of each joint type (Joint.isb_euler_sequence).
isb_euler_sequence(joint_type) ==
    IF joint_type = "glenohumeral" THEN "yxy" ELSE "yxz"

\* The ISB names of the three degrees of freedom (Joint.isb_rotation_biomechanical_dof).
isb_rotation_biomechanical_dof(joint_type) ==
    CASE joint_type = "glenohumeral" ->
             <<"plane of elevation", "elevation", "internal-external rotation">>
      [] joint_type = "scapulothoracic" ->
             <<"protraction-retraction", "medial-lateral rotation", "posterior-anterior tilt">>
      [] joint_type = "acromioclavicular" ->
             <<"protraction-retraction", "medial-lateral rotation", "posterior-anterior tilt">>
      [] OTHER ->
             <<"protraction-retraction", "depression-elevation", "backwards-forward rotation">>

\* The principal range of an extraction, in quarter turns: the first and third
\* angles in (-180, 180], the middle one in [-90, 90] for three distinct axes
\* and in [0, 180] when the first axis is repeated.
PrincipalTriples(seq) ==
    LET middle == IF Letters(seq)[1] = Letters(seq)[3] THEN 0..2 ELSE -1..1
    IN  {<<a, b, c>> : a \in -1..2, b \in middle, c \in -1..2}

\* The 24 rotation matrices that quarter turns compose.
QuarterTurnRotations ==
    {RotationFromEulerAngles(<<a, b, c>>, "xyz") : a \in 0..3, b \in 0..3, c \in 0..3}

\* For each sequence and each rotation, the triples of the principal range
\* that give it.
ExtractionTable ==
    [seq \in EulerSequence |-> [m \in QuarterTurnRotations |->
        {t \in PrincipalTriples(seq) : RotationFromEulerAngles(t, seq) = m}]]

\* A matrix that is no rotation (a frame that is not direct) has no triple.
ExtractionCandidates(rotation_matrix, euler_sequence) ==
    IF rotation_matrix \in QuarterTurnRotations
    THEN ExtractionTable[euler_sequence][rotation_matrix]
    ELSE {}

\* Gimbal lock: the matrix has more than one triple in the principal range.
DegenerateExtraction(rotation_matrix, euler_sequence) ==
    Cardinality(ExtractionCandidates(rotation_matrix, euler_sequence)) # 1

\* Re-extract: the triple of the principal range that gives the matrix.
rotation_matrix_2_euler_angles(rotation_matrix, euler_sequence) ==
    CHOOSE t \in ExtractionCandidates(rotation_matrix, euler_sequence) : TRUE

----------------------------------------------------------------------------
(* set_rotation_correction_callback.  The closures read self.joint and the *)
(* two frames when they are called; what is fixed when they are built is   *)
(* the branch `if self.left_side` and the two correction matrices.         *)

\* right_side is a public attribute: __init__ sets it True and no method of
\* RowData writes it, so a left side exists only by assignment from outside.
assign_right_side(value) ==
    /\ call.pc = "idle"
    /\ self' = [self EXCEPT !.right_side = value]
    /\ ret' = Returned("right_side", PyNone)
    /\ call' = IdleCall
    /\ UNCHANGED row

\* The catalogue matrices of a list of corrections, multiplied in the order of
\* the list.
RECURSIVE ComposedCatalogue(_)
ComposedCatalogue(items) ==
    IF items = <<>> THEN Identity3
    ELSE MatMul(get_kolz_rotation_matrix(Head(items)), ComposedCatalogue(Tail(items)))

\* The correction matrix as the composition of every declared correction.
MatrixCorrection_Composed(corrections) ==
    IF corrections = PyNone THEN Identity3
    ELSE ComposedCatalogue(Val(corrections))

MatrixCorrection(corrections) ==
    IF corrections = PyNone THEN Identity3
    ELSE get_kolz_rotation_matrix(Val(corrections)[1])

set_rotation_correction_callback ==
    /\ call.pc = "idle"
    /\ self' = [self EXCEPT !.euler_angles_correction_callback =
                   Some([left_handed |-> left_side,
                         parent_matrix_correction |-> MatrixCorrection(self.parent_corrections),
                         child_matrix_correction |-> MatrixCorrection(self.child_corrections)])]
    /\ ret' = Returned("set_rotation_correction_callback", PyNone)
    /\ call' = IdleCall
    /\ UNCHANGED row

----------------------------------------------------------------------------
(* One call of self.euler_angles_correction_callback(rot1, rot2, rot3),    *)
(* stage by stage in the order Python evaluates the nested closures: the   *)
(* innermost call first.  call.pc names the stage about to run,            *)
(* call.matrix the value handed from stage to stage, call.trace the        *)
(* stages that ran.  A finished call keeps its record until the next       *)
(* operation on the record starts.                                         *)

Callback == Val(self.euler_angles_correction_callback)

TransformName == "euler_angles_correction_callback"

\* The largest angle, in quarter turns, the transform is called with.
MaxQuarterTurns == 1

Rots == {<<a, b, c>> : a \in 0..MaxQuarterTurns, b \in 0..MaxQuarterTurns,
                       c \in 0..MaxQuarterTurns}

\* Calling None raises TypeError.
call_transform(rot) ==
    /\ call.pc = "idle"
    /\ IF self.euler_angles_correction_callback = PyNone
       THEN /\ ret' = Raised(TransformName)
            /\ call' = IdleCall
       ELSE /\ ret' = [op |-> TransformName, raised |-> FALSE, value |-> PyNone]
            /\ call' = [pc |-> "isb_framed_rotation_matrix_from_euler_angles",
                        rot |-> rot, matrix |-> Identity3, trace |-> <<>>]
    /\ UNCHANGED <<row, self>>

\* self.joint.euler_sequence.value and the frames are read now: AttributeError
\* when the joint, its Euler sequence or a frame is None.
CannotReframe(s) ==
    \/ s.joint = PyNone
    \/ Val(s.joint).euler_sequence = PyNone
    \/ s.parent_biomech_sys = PyNone
    \/ s.child_biomech_sys = PyNone

IsbFramed(s, rot) ==
    isb_framed_rotation_matrix_from_euler_angles(
        rot, Val(Val(s.joint).euler_sequence), Pbsys(s), Cbsys(s))

\* The stage after the reframe: mediolateral_matrix is the reframe wrapped in
\* to_left_handed_frame when the closure was built on a left side, and the
\* reframe itself otherwise.
AfterReframe ==
    IF Callback.left_handed THEN "to_left_handed_frame"
    ELSE "set_corrections_on_rotation_matrix"

stage_isb_framed ==
    /\ call.pc = "isb_framed_rotation_matrix_from_euler_angles"
    /\ IF CannotReframe(self)
       THEN /\ ret' = Raised(TransformName)
            /\ call' = [call EXCEPT !.pc = "idle"]
       ELSE /\ call' = [call EXCEPT !.pc = AfterReframe,
                                    !.matrix = IsbFramed(self, call.rot),
                                    !.trace = Append(@, call.pc)]
            /\ UNCHANGED ret
    /\ UNCHANGED <<row, self>>

stage_to_left_handed_frame ==
    /\ call.pc = "to_left_handed_frame"
    /\ call' = [call EXCEPT !.pc = "set_corrections_on_rotation_matrix",
                            !.matrix = to_left_handed_frame(call.matrix),
                            !.trace = Append(@, call.pc)]
    /\ UNCHANGED <<row, self, ret>>

\* The corrections applied to the reframed matrix, whatever the stage before
\* handed over.
stage_set_corrections_OnReframedMatrix ==
    /\ call.pc = "set_corrections_on_rotation_matrix"
    /\ call' = [call EXCEPT !.pc = "rotation_matrix_2_euler_angles",
                            !.matrix = set_corrections_on_rotation_matrix(
                                           IsbFramed(self, call.rot),
                                           Callback.child_matrix_correction,
                                           Callback.parent_matrix_correction),
                            !.trace = Append(@, call.pc)]
    /\ UNCHANGED <<row, self, ret>>

stage_set_corrections ==
    /\ call.pc = "set_corrections_on_rotation_matrix"
    /\ call' = [call EXCEPT !.pc = "rotation_matrix_2_euler_angles",
                            !.matrix = set_corrections_on_rotation_matrix(
                                           call.matrix,
                                           Callback.child_matrix_correction,
                                           Callback.parent_matrix_correction),
                            !.trace = Append(@, call.pc)]
    /\ UNCHANGED <<row, self, ret>>

\* The extraction run on the transposed matrix.
stage_rotation_matrix_2_euler_angles_OfTranspose ==
    LET seq == isb_euler_sequence(Val(self.joint).joint_type)
        transposed == Transpose(call.matrix)
    IN  /\ call.pc = "rotation_matrix_2_euler_angles"
        /\ call' = [call EXCEPT !.pc = "idle", !.trace = Append(@, call.pc)]
        /\ ret' = IF DegenerateExtraction(transposed, seq)
                  THEN Raised(TransformName)
                  ELSE Returned(TransformName, rotation_matrix_2_euler_angles(transposed, seq))
        /\ UNCHANGED <<row, self>>

\* The extraction uses self.joint.isb_euler_sequence(), read at the call.
stage_rotation_matrix_2_euler_angles ==
    LET seq == isb_euler_sequence(Val(self.joint).joint_type)
    IN  /\ call.pc = "rotation_matrix_2_euler_angles"
        /\ call' = [call EXCEPT !.pc = "idle", !.trace = Append(@, call.pc)]
        /\ ret' = IF DegenerateExtraction(call.matrix, seq)
                  THEN Raised(TransformName)
                  ELSE Returned(TransformName, rotation_matrix_2_euler_angles(call.matrix, seq))
        /\ UNCHANGED <<row, self>>

----------------------------------------------------------------------------
(* is_joint_euler_angle_ISB_with_adaptation_from_segment.  A string is the *)
(* sequence of its characters.                                             *)

\* The value[0] of a frame's anterior_posterior_axis (direction 1),
\* infero_superior_axis (2) or medio_lateral_axis (3): the letter of the
\* study's axis that carries the direction, after a "-" when it points the
\* opposite way.
AxisLabel(bsys, direction) ==
    LET j == CHOOSE j \in 1..3 : Abs(bsys.axes[j]) = direction
        letter == <<"x", "y", "z">>[j]
    IN  IF bsys.axes[j] < 0 THEN <<"-", letter>> ELSE <<letter>>

\* The direction each letter of the ISB sequence stands for.
LetterDirection(charac) ==
    CASE charac = "x" -> 1 [] charac = "y" -> 2 [] OTHER -> 3

\* adapted_euler_seq: the first two letters read on the parent frame, the
\* third on the child frame.
AdaptedEulerSeq(s) ==
    LET supposed_euler_seq == Letters(isb_euler_sequence(Val(s.joint).joint_type))
    IN  AxisLabel(Pbsys(s), LetterDirection(supposed_euler_seq[1]))
        \o AxisLabel(Pbsys(s), LetterDirection(supposed_euler_seq[2]))
        \o AxisLabel(Cbsys(s), LetterDirection(supposed_euler_seq[3]))

\* str.replace("-", ""): a new string without the minus signs.
RECURSIVE StrReplaceMinus(_)
StrReplaceMinus(str) ==
    IF str = <<>> THEN <<>>
    ELSE IF Head(str) = "-" THEN StrReplaceMinus(Tail(str))
         ELSE <<Head(str)>> \o StrReplaceMinus(Tail(str))

\* Line 776 calls adapted_euler_seq.replace("-", "") and drops what it
\* returns; line 778 compares adapted_euler_seq itself.
is_joint_euler_angle_ISB_with_adaptation_from_segment ==
    /\ call.pc = "idle"
    /\ ret' = IF CannotReframe(self)
              THEN Raised("is_joint_euler_angle_ISB_with_adaptation_from_segment")
              ELSE LET raw_euler_seq == Letters(Val(Val(self.joint).euler_sequence))
                       adapted_euler_seq == AdaptedEulerSeq(self)
                       dropped == StrReplaceMinus(adapted_euler_seq)
                   IN  Returned("is_joint_euler_angle_ISB_with_adaptation_from_segment",
                                PyBool(adapted_euler_seq = raw_euler_seq))
    /\ call' = IdleCall
    /\ UNCHANGED <<row, self>>

----------------------------------------------------------------------------
(* The pipeline specification: a row of a glenohumeral or scapulothoracic  *)
(* joint, then validation, the binding of the transform, assignments of    *)
(* the side, and calls of the transform, in any order.                     *)

\* ISB-oriented axes with two of them pointing the opposite way: a direct frame.
FlippedAxes == <<-1, 2, -3>>

PipelineAxes ==
    {<<IsbAxes, IsbAxes>>, <<LateralAxes, IsbAxes>>, <<IsbAxes, LateralAxes>>,
     <<FlippedAxes, FlippedAxes>>}

PipelineCells ==
    {<<FloatNanCell, FloatNanCell>>,
     <<StrCell(<<"SCAPULA_KOLZ_AC_TO_PA_ROTATION">>), StrCell(<<"TO_ISB_ROTATION">>)>>,
     <<StrCell(<<"TO_ISB_ROTATION", "TO_ISB_LIKE_ROTATION">>),
       StrCell(<<"TO_ISB_LIKE_ROTATION", "SCAPULA_KOLZ_AC_TO_PA_ROTATION">>)>>}

PipelineRows ==
    {RowOf(JointParent(j), JointChild(j),
           SegmentColumns(TRUE, a[1], IsbOrigin(JointParent(j)), c[1], "NaN", "NaN"),
           SegmentColumns(TRUE, a[2], IsbOrigin(JointChild(j)), c[2], "NaN", "NaN"),
           j, e, PyNone, "False", side, <<>>) :
        j \in {"glenohumeral", "scapulothoracic"},
        a \in PipelineAxes,
        c \in PipelineCells,
        e \in {PyNone, Some("xzy"), Some("yxz")},
        side \in {"right", "left"}}

InitPipeline ==
    /\ row \in PipelineRows
    /\ self = InitSelf
    /\ ret = Returned("__init__", PyNone)
    /\ call = IdleCall

NextPipeline ==
    \/ check_joint_validity
    \/ set_segments
    \/ check_segments_correction_validity
    \/ \E value \in BOOLEAN : assign_right_side(value)
    \/ set_rotation_correction_callback
    \/ is_joint_euler_angle_ISB_with_adaptation_from_segment
    \/ \E rot \in Rots : call_transform(rot)
    \/ stage_isb_framed
    \/ stage_to_left_handed_frame
    \/ stage_set_corrections
    \/ stage_rotation_matrix_2_euler_angles

SpecPipeline == InitPipeline /\ [][NextPipeline]_vars

\* The stages a call has run when it is about to run, or has just run, the
\* stage named.
StagesBefore(stage) ==
    LET reframed == <<"isb_framed_rotation_matrix_from_euler_angles">>
        handed == IF Callback.left_handed
                  THEN Append(reframed, "to_left_handed_frame") ELSE reframed
        corrected == Append(handed, "set_corrections_on_rotation_matrix")
    IN  CASE stage = "isb_framed_rotation_matrix_from_euler_angles" -> <<>>
          [] stage = "to_left_handed_frame" -> reframed
          [] stage = "set_corrections_on_rotation_matrix" -> handed
          [] stage = "rotation_matrix_2_euler_angles" -> corrected
          [] OTHER -> Append(corrected, "rotation_matrix_2_euler_angles")

\* The value each stage hands to the next one, recomputed from the call's
\* angles.
HandedMatrix ==
    IF Callback.left_handed THEN to_left_handed_frame(IsbFramed(self, call.rot))
    ELSE IsbFramed(self, call.rot)

CorrectedMatrix ==
    set_corrections_on_rotation_matrix(HandedMatrix, Callback.child_matrix_correction,
                                       Callback.parent_matrix_correction)

\* A call that got past its first stage.
PastReframe == call.trace # <<>>

\* C9: every call of the transform runs reframe, handedness fix, named
\* corrections and Euler re-extraction in that order, each stage on the output
\* of the one before; the handedness stage of a transform built on a right
\* side, and a correction stage with no declared correction, hand the matrix
\* on unchanged; the call returns the extraction of the corrected matrix.
C9_StagesInFixedOrder ==
    /\ call.pc # "idle" => call.trace = StagesBefore(call.pc)
    /\ PastReframe =>
          /\ call.pc = "to_left_handed_frame" =>
                Callback.left_handed /\ call.matrix = IsbFramed(self, call.rot)
          /\ call.pc = "set_corrections_on_rotation_matrix" => call.matrix = HandedMatrix
          /\ ~Callback.left_handed => HandedMatrix = IsbFramed(self, call.rot)
          /\ call.pc \in {"rotation_matrix_2_euler_angles", "idle"} =>
                call.matrix = CorrectedMatrix
          /\ (/\ Callback.parent_matrix_correction = Identity3
              /\ Callback.child_matrix_correction = Identity3) =>
                CorrectedMatrix = HandedMatrix
          /\ call.pc = "idle" =>
                /\ call.trace = StagesBefore("idle")
                /\ ~ret.raised =>
                      ret.value = rotation_matrix_2_euler_angles(
                                      CorrectedMatrix,
                                      isb_euler_sequence(Val(self.joint).joint_type))

\* C9 witness: a finished call of a transform built on a left side with a
\* declared correction, in which the handedness fix and the corrections each
\* changed the matrix they were given.
C9_Witness ==
    /\ call.pc = "idle"
    /\ Len(call.trace) = 4
    /\ ret.op = TransformName /\ ~ret.raised
    /\ HandedMatrix # IsbFramed(self, call.rot)
    /\ CorrectedMatrix # HandedMatrix
    /\ CorrectedMatrix # set_corrections_on_rotation_matrix(
                             IsbFramed(self, call.rot),
                             Callback.child_matrix_correction,
                             Callback.parent_matrix_correction)

\* set_rotation_correction_callback has just run.
JustBound == ret'.op = "set_rotation_correction_callback"

\* The catalogue matrix of the first correction of a list, the identity for None.
FirstCatalogueMatrix(corrections) ==
    IF corrections = PyNone THEN Identity3
    ELSE get_kolz_rotation_matrix(Head(Val(corrections)))

\* C11: set_rotation_correction_callback fixes the parent's and the child's
\* correction matrix to the catalogue matrix of the first correction the
\* segment declares, and to the identity when it declares none; the
\* corrections after the first change nothing.
C11_FirstDeclaredCorrectionOnly ==
    [][JustBound =>
          /\ Callback'.parent_matrix_correction = FirstCatalogueMatrix(self.parent_corrections)
          /\ Callback'.child_matrix_correction = FirstCatalogueMatrix(self.child_corrections)]_vars

\* C11 witness: a transform bound on two corrections per segment, whose
\* matrices are those of the first corrections and differ from the
\* compositions, and a call of it that finished.
C11_Witness ==
    /\ self.euler_angles_correction_callback # PyNone
    /\ self.parent_corrections # PyNone /\ Len(Val(self.parent_corrections)) = 2
    /\ self.child_corrections # PyNone /\ Len(Val(self.child_corrections)) = 2
    /\ Callback.parent_matrix_correction = FirstCatalogueMatrix(self.parent_corrections)
    /\ Callback.parent_matrix_correction # ComposedCatalogue(Val(self.parent_corrections))
    /\ Callback.child_matrix_correction = FirstCatalogueMatrix(self.child_corrections)
    /\ Callback.child_matrix_correction # ComposedCatalogue(Val(self.child_corrections))
    /\ call.pc = "idle" /\ Len(call.trace) >= 3
    /\ call.matrix = set_corrections_on_rotation_matrix(
                         HandedMatrix, FirstCatalogueMatrix(self.child_corrections),
                         FirstCatalogueMatrix(self.parent_corrections))

\* C12 (as claimed): the correction matrix bound for a segment is the
\* composition of the catalogue matrices of all its declared corrections, in
\* declaration order.
C12_AllDeclaredCorrectionsComposed ==
    [][JustBound =>
          /\ Callback'.parent_matrix_correction =
                 IF self.parent_corrections = PyNone THEN Identity3
                 ELSE ComposedCatalogue(Val(self.parent_corrections))
          /\ Callback'.child_matrix_correction =
                 IF self.child_corrections = PyNone THEN Identity3
                 ELSE ComposedCatalogue(Val(self.child_corrections))]_vars

\* C10: the handedness fix is applied to the reframed matrix exactly when the
\* side declared by the study record is left.
C10_HandednessFollowsRecordSide ==
    PastReframe /\ call.pc # "to_left_handed_frame" =>
        (("to_left_handed_frame" \in {call.trace[i] : i \in 1..Len(call.trace)})
            <=> row.side = "left")

----------------------------------------------------------------------------
(* The transform as one function of the record, as the loop of             *)
(* to_angle_series_dataframe calls it: the same stages, composed.          *)

MediolateralMatrix(s, rot) ==
    IF Val(s.euler_angles_correction_callback).left_handed
    THEN to_left_handed_frame(IsbFramed(s, rot))
    ELSE IsbFramed(s, rot)

CorrectIsbRotationMatrix(s, rot) ==
    set_corrections_on_rotation_matrix(
        MediolateralMatrix(s, rot),
        Val(s.euler_angles_correction_callback).child_matrix_correction,
        Val(s.euler_angles_correction_callback).parent_matrix_correction)

TransformRaises(s, rot) ==
    \/ s.euler_angles_correction_callback = PyNone
    \/ CannotReframe(s)
    \/ DegenerateExtraction(CorrectIsbRotationMatrix(s, rot),
                            isb_euler_sequence(Val(s.joint).joint_type))

EulerAnglesCorrection(s, rot) ==
    rotation_matrix_2_euler_angles(CorrectIsbRotationMatrix(s, rot),
                                   isb_euler_sequence(Val(s.joint).joint_type))

\* np.deg2rad and np.rad2deg: the series is in degrees, whole multiples of 90;
\* the transform works in radians, which the model counts in quarter turns.
deg2rad(deg) == deg \div 90

rad2deg(rad) == rad * 90

apply_correction_in_radians(s, dof) ==
    LET corrected == EulerAnglesCorrection(s, <<deg2rad(dof[1]), deg2rad(dof[2]), deg2rad(dof[3])>>)
    IN  <<rad2deg(corrected[1]), rad2deg(corrected[2]), rad2deg(corrected[3])>>

apply_correction_raises(s, dof) ==
    TransformRaises(s, <<deg2rad(dof[1]), deg2rad(dof[2]), deg2rad(dof[3])>>)

\* np.unwrap(p, period): the correction of one jump dd between two samples.
PhaseCorrection(dd, period) ==
    LET half == period \div 2
        ddmod0 == ((dd + half) % period) - half
        ddmod == IF ddmod0 = -half /\ dd > 0 THEN half ELSE ddmod0
    IN  IF Abs(dd) < half THEN 0 ELSE ddmod - dd

RECURSIVE CumulatedCorrection(_, _, _)
CumulatedCorrection(p, i, period) ==
    IF i <= 1 THEN 0
    ELSE CumulatedCorrection(p, i - 1, period) + PhaseCorrection(p[i] - p[i - 1], period)

unwrap(p, period) ==
    ToSeq([i \in 1..Len(p) |-> p[i] + CumulatedCorrection(p, i, period)], Len(p))

----------------------------------------------------------------------------
(* The confidence of the record (deviation.py, biomech_system.py).         *)

\* The factor of one segment, in percent: 100 for a frame that is fully ISB,
\* less for each departure.
get_segment_risk_quantification(bsys) ==
    (IF is_isb_oriented(bsys) THEN 10 ELSE 8) * (IF is_origin_on_an_isb_axis(bsys) THEN 10 ELSE 9)

\* quantify_segment_risk reading the parent frame for both factors.
quantify_segment_risk_ParentTwice(s) ==
    get_segment_risk_quantification(Pbsys(s)) * get_segment_risk_quantification(Pbsys(s))

quantify_segment_risk(s) ==
    get_segment_risk_quantification(Pbsys(s)) * get_segment_risk_quantification(Cbsys(s))

\* Deviation.confidence_total(row_data, "rotation"): the product of the
\* segment factors; it reads both frames.
confidence_total(s) == quantify_segment_risk(s)

confidence_total_raises(s) ==
    s.parent_biomech_sys = PyNone \/ s.child_biomech_sys = PyNone

----------------------------------------------------------------------------
(* import_data and to_angle_series_dataframe.                              *)

\* load_euler_csv: the samples of the row's files, in order, each a
\* humerothoracic angle and three values in degrees.
import_data ==
    /\ call.pc = "idle"
    /\ self' = [self EXCEPT !.data = Some(row.series)]
    /\ ret' = Returned("import_data", PyNone)
    /\ call' = IdleCall
    /\ UNCHANGED row

Samples(s) == Val(s.data)

\* The three value columns before unwrapping: the transform of every sample,
\* or the raw values.
ValueDof(s, correction) ==
    ToSeq([i \in 1..Len(Samples(s)) |->
              IF correction THEN apply_correction_in_radians(s, Samples(s)[i].value_dof)
              ELSE Samples(s)[i].value_dof],
          Len(Samples(s)))

Channel(values, k) == ToSeq([i \in 1..Len(values) |-> values[i][k]], Len(values))

\* The unwrapping done inside the loop, on the value of one sample at a
\* time: a series of one value has no jump to remove.
FinalValueDof_UnwrapPerSample(s, correction) ==
    LET values == ValueDof(s, correction)
    IN  IF correction
        THEN ToSeq([i \in 1..Len(values) |->
                       <<unwrap(<<values[i][1]>>, 180)[1],
                         unwrap(<<values[i][2]>>, 180)[1],
                         unwrap(<<values[i][3]>>, 180)[1]>>], Len(values))
        ELSE values

\* With correction, each of the three channels is unwrapped over the series.
FinalValueDof(s, correction) ==
    LET values == ValueDof(s, correction)
        unwrapped == <<unwrap(Channel(values, 1), 180),
                       unwrap(Channel(values, 2), 180),
                       unwrap(Channel(values, 3), 180)>>
    IN  IF correction
        THEN ToSeq([i \in 1..Len(values) |->
                       <<unwrapped[1][i], unwrapped[2][i], unwrapped[3][i]>>], Len(values))
        ELSE values

\* The legend: the ISB names with correction, else the letters of the
\* declared sequence.
Legend(s, correction) ==
    IF correction THEN isb_rotation_biomechanical_dof(Val(s.joint).joint_type)
    ELSE Letters(Val(Val(s.joint).euler_sequence))

\* The wide table with a confidence of its own for every sample.
AngleSeriesDataframe_ConfidencePerSample(s, correction) ==
    LET value_dof == FinalValueDof(s, correction)
    IN  ToSeq([i \in 1..Len(Samples(s)) |->
                  [humerothoracic_angle |-> Samples(s)[i].humerothoracic_angle,
                   value_dof |-> value_dof[i],
                   joint |-> row.joint,
                   unit |-> "rad",
                   confidence |-> confidence_total(s) - (i - 1)]],
              Len(Samples(s)))

\* The wide table: one row per sample.
AngleSeriesDataframe(s, correction) ==
    LET value_dof == FinalValueDof(s, correction)
        confidence == confidence_total(s)
    IN  ToSeq([i \in 1..Len(Samples(s)) |->
                  [humerothoracic_angle |-> Samples(s)[i].humerothoracic_angle,
                   value_dof |-> value_dof[i],
                   joint |-> row.joint,
                   unit |-> "rad",
                   confidence |-> confidence]],
              Len(Samples(s)))

\* The melted table with value_vars = value_dof1, value_dof2 only.
Melt_TwoValueVars(wide, legend) ==
    LET n == Len(wide)
    IN  ToSeq([r \in 1..(2 * n) |->
                  LET k == ((r - 1) \div n) + 1
                      i == ((r - 1) % n) + 1
                  IN  [humerothoracic_angle |-> wide[i].humerothoracic_angle,
                       joint |-> wide[i].joint,
                       unit |-> wide[i].unit,
                       confidence |-> wide[i].confidence,
                       degree_of_freedom |-> k,
                       value |-> wide[i].value_dof[k],
                       biomechanical_dof |-> legend[k]]],
              2 * n)

\* The melted table of a wide table: the rows of value_dof1, then value_dof2,
\* then value_dof3, each with its legend.
Melt(wide, legend) ==
    LET n == Len(wide)
    IN  ToSeq([r \in 1..(3 * n) |->
                  LET k == ((r - 1) \div n) + 1
                      i == ((r - 1) % n) + 1
                  IN  [humerothoracic_angle |-> wide[i].humerothoracic_angle,
                       joint |-> wide[i].joint,
                       unit |-> wide[i].unit,
                       confidence |-> wide[i].confidence,
                       degree_of_freedom |-> k,
                       value |-> wide[i].value_dof[k],
                       biomechanical_dof |-> legend[k]]],
              3 * n)

\* Where the call raises, in the order of the source: the confidence (line
\* 832), self.data.shape (835), the transform of a sample (839), the legend
\* (868-874).  Nothing is assigned before line 883.
to_angle_series_dataframe_raises(s, correction) ==
    \/ confidence_total_raises(s)
    \/ s.data = PyNone
    \/ /\ correction
       /\ \E i \in 1..Len(Samples(s)) : apply_correction_raises(s, Samples(s)[i].value_dof)
    \/ s.joint = PyNone
    \/ ~correction /\ Val(s.joint).euler_sequence = PyNone

\* The samples before the first one the transform fails on.
RECURSIVE LeadingCorrected(_, _)
LeadingCorrected(s, samples) ==
    IF samples = <<>> \/ apply_correction_raises(s, Head(samples).value_dof) THEN <<>>
    ELSE <<[Head(samples) EXCEPT
               !.value_dof = apply_correction_in_radians(s, Head(samples).value_dof)]>>
         \o LeadingCorrected(s, Tail(samples))

\* The expansion storing, when the transform fails on a sample, the rows of the
\* samples before it.
to_angle_series_dataframe_KeepsLeadingRows(correction) ==
    LET angle_series_dataframe == AngleSeriesDataframe(self, correction)
        melted_data == Melt(angle_series_dataframe, Legend(self, correction))
    IN  /\ call.pc = "idle"
        /\ IF to_angle_series_dataframe_raises(self, correction)
           THEN /\ self' = IF /\ correction
                              /\ ~confidence_total_raises(self)
                              /\ self.data # PyNone
                              /\ self.euler_angles_correction_callback # PyNone
                              /\ ~CannotReframe(self)
                           THEN [self EXCEPT !.corrected_data =
                                    Some(LeadingCorrected(self, Samples(self)))]
                           ELSE self
                /\ ret' = Raised("to_angle_series_dataframe")
           ELSE /\ self' = [self EXCEPT !.corrected_data = Some(angle_series_dataframe),
                                        !.melted_data = Some(melted_data)]
                /\ ret' = Returned("to_angle_series_dataframe", melted_data)
        /\ call' = IdleCall
        /\ UNCHANGED row

\* The expansion writing the values it computed back into self.data.
to_angle_series_dataframe_InPlace(correction) ==
    LET angle_series_dataframe == AngleSeriesDataframe(self, correction)
        melted_data == Melt(angle_series_dataframe, Legend(self, correction))
        written == ToSeq([i \in 1..Len(Samples(self)) |->
                             [Samples(self)[i] EXCEPT
                                 !.value_dof = angle_series_dataframe[i].value_dof]],
                         Len(Samples(self)))
    IN  /\ call.pc = "idle"
        /\ IF to_angle_series_dataframe_raises(self, correction)
           THEN /\ self' = self
                /\ ret' = Raised("to_angle_series_dataframe")
           ELSE /\ self' = [self EXCEPT !.corrected_data = Some(angle_series_dataframe),
                                        !.melted_data = Some(melted_data),
                                        !.data = Some(written)]
                /\ ret' = Returned("to_angle_series_dataframe", melted_data)
        /\ call' = IdleCall
        /\ UNCHANGED row

\* The expansion falling back on the raw values when no transform is bound.
to_angle_series_dataframe_RawWhenUnbound(correction) ==
    LET bound == correction /\ self.euler_angles_correction_callback # PyNone
        angle_series_dataframe == AngleSeriesDataframe(self, bound)
        melted_data == Melt(angle_series_dataframe, Legend(self, bound))
    IN  /\ call.pc = "idle"
        /\ IF to_angle_series_dataframe_raises(self, bound)
           THEN /\ self' = self
                /\ ret' = Raised("to_angle_series_dataframe")
           ELSE /\ self' = [self EXCEPT !.corrected_data = Some(angle_series_dataframe),
                                        !.melted_data = Some(melted_data)]
                /\ ret' = Returned("to_angle_series_dataframe", melted_data)
        /\ call' = IdleCall
        /\ UNCHANGED row

to_angle_series_dataframe(correction) ==
    LET angle_series_dataframe == AngleSeriesDataframe(self, correction)
        melted_data == Melt(angle_series_dataframe, Legend(self, correction))
    IN  /\ call.pc = "idle"
        /\ IF to_angle_series_dataframe_raises(self, correction)
           THEN /\ self' = self
                /\ ret' = Raised("to_angle_series_dataframe")
           ELSE /\ self' = [self EXCEPT !.corrected_data = Some(angle_series_dataframe),
                                        !.melted_data = Some(melted_data)]
                /\ ret' = Returned("to_angle_series_dataframe", melted_data)
        /\ call' = IdleCall
        /\ UNCHANGED row

----------------------------------------------------------------------------
(* The record specification: a glenohumeral row with or without an Euler   *)
(* sequence and a translation, then the operations of RowData in any       *)
(* order, the expansion included.                                          *)

\* The longest series a row's files hold.
MaxSamples == 2

Sample(h, d1, d2, d3) == [humerothoracic_angle |-> h, value_dof |-> <<d1, d2, d3>>]

SampleChoices == {Sample(0, 0, 0, 0), Sample(90, 90, 0, 180), Sample(180, 90, 0, 0)}

SeriesChoices == {<<>>} \cup SeqsUpTo(SampleChoices, MaxSamples)

Translation == [origin |-> "GH", frame |-> "scapula"]

RecordRows ==
    {RowOf("scapula", "humerus",
           SegmentColumns(TRUE, a, IsbOrigin("scapula"), c, "NaN", "NaN"),
           SegmentColumns(TRUE, IsbAxes, IsbOrigin("humerus"), FloatNanCell, "NaN", "NaN"),
           "glenohumeral", e, t, "False", "right", series) :
        a \in {IsbAxes, LateralAxes},
        c \in {FloatNanCell, StrCell(<<"TO_ISB_ROTATION">>)},
        e \in {PyNone, Some("xzy")},
        t \in {PyNone, Some(Translation)},
        series \in SeriesChoices}

InitRecord ==
    /\ row \in RecordRows
    /\ self = InitSelf
    /\ ret = Returned("__init__", PyNone)
    /\ call = IdleCall

NextRecord ==
    \/ check_joint_validity
    \/ set_segments
    \/ check_segments_correction_validity
    \/ set_rotation_correction_callback
    \/ import_data
    \/ \E correction \in BOOLEAN : to_angle_series_dataframe(correction)

SpecRecord == InitRecord /\ [][NextRecord]_vars

\* The row declares neither an Euler sequence nor a translation.
NoJointData == row.euler_sequence = PyNone /\ row.translation = PyNone

\* C1: for a row with neither an Euler sequence nor a translation,
\* check_joint_validity returns False without raising, no Joint is ever built,
\* has_rotation_data and has_translation_data are recorded False, and the
\* record never yields an output row: whatever was called before it,
\* to_angle_series_dataframe raises and leaves no table on the record.
C1_NoJointDataRejected ==
    NoJointData =>
        /\ self.joint = PyNone
        /\ self.corrected_data = PyNone /\ self.melted_data = PyNone
        /\ ret.op = "check_joint_validity" =>
              /\ ret = Returned("check_joint_validity", PyFalse)
              /\ self.has_rotation_data = PyFalse
              /\ self.has_translation_data = PyFalse
        /\ self.has_rotation_data # PyNone =>
              self.has_rotation_data = PyFalse /\ self.has_translation_data = PyFalse
        /\ ret.op = "to_angle_series_dataframe" => ret.raised

\* C1 witness: such a row, validated (False), with frames, series and transform
\* in place, whose expansion was then attempted.
C1_Witness ==
    /\ NoJointData
    /\ self.has_rotation_data = PyFalse
    /\ self.parent_biomech_sys # PyNone
    /\ self.euler_angles_correction_callback # PyNone
    /\ self.data # PyNone /\ Len(Val(self.data)) = MaxSamples
    /\ ret = Raised("to_angle_series_dataframe")

----------------------------------------------------------------------------
(* The cell specification: a thorax -> scapula row, both frames ISB with   *)
(* their origins on the axes, every value of the boolean-like vocabulary   *)
(* in is_correctable, is_isb and thorax_is_global; then the two parsers    *)
(* called on the parent or the child, set_segments and                     *)
(* check_segments_correction_validity.                                     *)

call_extract_is_correctable(segment) ==
    /\ call.pc = "idle"
    /\ ret' = IF extract_is_correctable_raises(segment)
              THEN Raised("extract_is_correctable")
              ELSE Returned("extract_is_correctable", extract_is_correctable(segment))
    /\ call' = IdleCall
    /\ UNCHANGED <<row, self>>

call_extract_is_isb(segment) ==
    /\ call.pc = "idle"
    /\ ret' = IF extract_is_isb_raises(segment)
              THEN Raised("extract_is_isb")
              ELSE Returned("extract_is_isb", extract_is_isb(segment))
    /\ call' = IdleCall
    /\ UNCHANGED <<row, self>>

CellRows ==
    {RowOf("thorax", "scapula",
           SegmentColumns(TRUE, IsbAxes, IsbOrigin("thorax"), c, k, i),
           SegmentColumns(TRUE, IsbAxes, IsbOrigin("scapula"), FloatNanCell, i, k),
           "scapulothoracic", Some("yxz"), PyNone, g, "right", <<>>) :
        c \in {FloatNanCell, StrCell(<<"TO_ISB_LIKE_ROTATION">>)},
        k \in BoolCell, i \in BoolCell, g \in BoolCell}

InitCells ==
    /\ row \in CellRows
    /\ self = InitSelf
    /\ ret = Returned("__init__", PyNone)
    /\ call = IdleCall

NextCells ==
    \/ \E segment \in {parent_segment, child_segment} : call_extract_is_correctable(segment)
    \/ \E segment \in {parent_segment, child_segment} : call_extract_is_isb(segment)
    \/ set_segments
    \/ check_segments_correction_validity

SpecCells == InitCells /\ [][NextCells]_vars

\* What a cell of the boolean-like vocabulary means.
CellMeaning(cell) ==
    CASE cell \in {"str_true", "True"}   -> PyTrue
      [] cell \in {"str_false", "False"} -> PyFalse
      [] OTHER                           -> PyNone

\* C18 (as claimed): on every value of the vocabulary, extract_is_correctable
\* and extract_is_isb return without raising, and return what the cell means:
\* True for "true" and True, False for "false" and False, None for "nan", NaN
\* and a missing value.
C18_BooleanLikeCellsParsed ==
    ret.op \in {"extract_is_correctable", "extract_is_isb"} =>
        /\ ~ret.raised
        /\ \A segment \in {parent_segment, child_segment} :
              /\ ~extract_is_correctable_raises(segment)
              /\ extract_is_correctable(segment) =
                     CellMeaning(row.columns[segment].is_correctable)
              /\ ~extract_is_isb_raises(segment)
              /\ extract_is_isb(segment) = CellMeaning(row.columns[segment].is_isb)

\* For the rows of the cell specification (both frames ISB, origins on the
\* axes) parent_definition_risk is written by the thorax-global block alone.
TookThoraxGlobalPath == self.parent_definition_risk = PyTrue

\* C19 (as claimed): for a thorax parent the thorax-global path is taken iff
\* the thorax_is_global cell means true: the string "true" or the boolean True.
C19_ThoraxGlobalCellMeaning ==
    (CheckReturned /\ parent_segment = "thorax") =>
        (TookThoraxGlobalPath <=> CellMeaning(row.thorax_is_global) = PyTrue)

----------------------------------------------------------------------------
(* check_all_segments_validity: the loop over the segments.  The three     *)
(* checks of checks.py return a boolean each; what they answer for a       *)
(* segment is an input of the call.                                        *)

\* The order `for segment_enum in Segment` visits the segments in.
SegmentOrder == <<"thorax", "clavicle", "scapula", "humerus">>

\* What check_is_isb_segment, check_is_isb_correctable and
\* check_correction_methods can answer for one segment.
CheckAnswers ==
    [is_isb_segment : BOOLEAN, is_isb_correctable : BOOLEAN,
     correction_methods : BOOLEAN]

\* The answers for a segment of the row; a segment filled with NaN is never
\* handed to the checks, which would pass it or fail it.
AnswersFor(segment) ==
    IF row.columns[segment].provided
    THEN CheckAnswers
    ELSE {[is_isb_segment |-> b, is_isb_correctable |-> b,
           correction_methods |-> b] : b \in BOOLEAN}

\* `output` after the body of the loop for one provided segment, every check
\* assigning `output` its own verdict.
SegmentOutput_Reassigned(segment, output, answers) ==
    /\ answers[segment].is_isb_segment
    /\ answers[segment].is_isb_correctable
    /\ answers[segment].correction_methods
    /\ is_direct(SegmentFrame(segment))

\* `output` after the body of the loop for one provided segment: each failed
\* check assigns False, nothing assigns True.
SegmentOutput(segment, output, answers) ==
    IF \/ ~answers[segment].is_isb_segment
       \/ ~answers[segment].is_isb_correctable
       \/ ~answers[segment].correction_methods
       \/ ~is_direct(SegmentFrame(segment))
    THEN FALSE
    ELSE output

\* The loop without the `continue` of lines 125-126: every segment of the
\* order goes through the checks.
RECURSIVE OutputTrace_NoSkip(_, _, _)
OutputTrace_NoSkip(order, output, answers) ==
    IF order = <<>> THEN <<>>
    ELSE LET after == SegmentOutput(Head(order), output, answers)
         IN  <<[segment |-> Head(order), output |-> after]>>
             \o OutputTrace_NoSkip(Tail(order), after, answers)

\* The value of `output` after each provided segment of the order; a segment
\* filled with NaN is skipped (`continue`).
RECURSIVE OutputTrace(_, _, _)
OutputTrace(order, output, answers) ==
    IF order = <<>> THEN <<>>
    ELSE IF ~row.columns[Head(order)].provided
         THEN OutputTrace(Tail(order), output, answers)
         ELSE LET after == SegmentOutput(Head(order), output, answers)
              IN  <<[segment |-> Head(order), output |-> after]>>
                  \o OutputTrace(Tail(order), after, answers)

check_all_segments_validity(answers) ==
    LET trace == OutputTrace(SegmentOrder, TRUE, answers)
        output == IF trace = <<>> THEN TRUE ELSE trace[Len(trace)].output
    IN  /\ call.pc = "idle"
        /\ ret' = Returned("check_all_segments_validity", PyBool(output))
        /\ call' = [IdleCall EXCEPT !.trace = trace]
        /\ UNCHANGED <<row, self>>

\* A frame that is not direct: z points the wrong way.
IndirectAxes == <<1, 2, -3>>

\* The rows of the segment specification: every segment described or not,
\* with ISB axes or axes that are not direct.
SegmentRows ==
    {[RowOf("scapula", "humerus", NanColumns, NanColumns, "glenohumeral",
            Some("xzy"), PyNone, "False", "right", <<>>)
         EXCEPT !.columns = [g \in Segment |->
             IF axes[g] = <<>> THEN NanColumns
             ELSE SegmentColumns(TRUE, axes[g], IsbOrigin(g), FloatNanCell, "NaN", "True")]] :
        axes \in [Segment -> {<<>>, IsbAxes, IndirectAxes}]}

InitSegments ==
    /\ row \in SegmentRows
    /\ self = InitSelf
    /\ ret = Returned("__init__", PyNone)
    /\ call = IdleCall

NextSegments ==
    \E t \in AnswersFor("thorax") : \E c \in AnswersFor("clavicle") :
    \E s \in AnswersFor("scapula") : \E h \in AnswersFor("humerus") :
        check_all_segments_validity(
            ("thorax" :> t) @@ ("clavicle" :> c) @@ ("scapula" :> s) @@ ("humerus" :> h))

SpecSegments == InitSegments /\ [][NextSegments]_vars

\* A segment of the row that is described and whose axes are not direct.
ProvidedNotDirect(segment) ==
    row.columns[segment].provided /\ ~is_direct(SegmentFrame(segment))

\* C20: check_all_segments_validity returns False whenever a provided segment
\* has axes that are not direct, whatever the other checks answer and
\* whatever the other segments are; once `output` is False after a segment it
\* is False after every later one, and the value returned is the last one.
C20_IndirectFrameInvalidates ==
    ret.op = "check_all_segments_validity" =>
        /\ ~ret.raised
        /\ (\E segment \in Segment : ProvidedNotDirect(segment)) => ret.value = PyFalse
        /\ \A i \in 1..Len(call.trace) :
              /\ ProvidedNotDirect(call.trace[i].segment) => ~call.trace[i].output
              /\ \A j \in i..Len(call.trace) :
                    ~call.trace[i].output => ~call.trace[j].output
        /\ call.trace # <<>> => ret.value = PyBool(call.trace[Len(call.trace)].output)

\* C20 witness: the first provided segment is not direct, a later one is
\* direct and passes every check, and the call returned False.
C20_Witness ==
    /\ ret = Returned("check_all_segments_validity", PyFalse)
    /\ Len(call.trace) >= 2
    /\ ProvidedNotDirect(call.trace[1].segment)
    /\ \A i \in 2..Len(call.trace) : ~ProvidedNotDirect(call.trace[i].segment)
    /\ \A i \in 1..Len(call.trace) : ~call.trace[i].output

\* The segments the loop took through the checks.
CheckedSegments == {call.trace[i].segment : i \in 1..Len(call.trace)}

\* C21: a segment whose columns are all NaN is skipped by
\* check_all_segments_validity: it is not among the segments the checks ran
\* on, every provided segment is, a False result comes from a provided
\* segment, and a row with no provided segment yields True.
C21_MissingSegmentSkipped ==
    ret.op = "check_all_segments_validity" =>
        /\ CheckedSegments = {g \in Segment : row.columns[g].provided}
        /\ Len(call.trace) = Cardinality(CheckedSegments)
        /\ ret.value = PyFalse =>
              \E i \in 1..Len(call.trace) :
                  /\ row.columns[call.trace[i].segment].provided
                  /\ ~call.trace[i].output
        /\ (\A g \in Segment : ~row.columns[g].provided) => ret.value = PyTrue

\* C21 witness: two segments are missing, the two provided ones pass every
\* check and the call returned True.
C21_Witness ==
    /\ ret = Returned("check_all_segments_validity", PyTrue)
    /\ Len(call.trace) = 2
    /\ Cardinality({g \in Segment : ~row.columns[g].provided}) = 2

----------------------------------------------------------------------------
(* What the claims on the expansion speak about.                           *)

\* to_angle_series_dataframe has just returned its melted table.
Expanded == ret.op = "to_angle_series_dataframe" /\ ~ret.raised

\* The row of the melted table for sample i and degree of freedom k: melt
\* stacks the three value columns one after the other.
MeltedRow(rows, n, i, k) == rows[(k - 1) * n + i]

\* C13: for a series of N samples the call returns exactly 3*N rows, one per
\* (sample, degree of freedom) pair with degree_of_freedom in {1, 2, 3}; the
\* row of (i, k) carries the humerothoracic angle of sample i, the k-th value
\* computed for sample i and the k-th biomechanical_dof label.
C13_OneRowPerSampleAndDof ==
    Expanded =>
        LET n == Len(Samples(self))
        IN  /\ Len(ret.value) = 3 * n
            /\ \A r \in 1..Len(ret.value) : ret.value[r].degree_of_freedom \in {1, 2, 3}
            /\ \E correction \in BOOLEAN :
                  LET values == FinalValueDof(self, correction)
                      legend == Legend(self, correction)
                  IN  \A i \in 1..n : \A k \in 1..3 :
                         LET melted == MeltedRow(ret.value, n, i, k)
                         IN  /\ melted.degree_of_freedom = k
                             /\ melted.humerothoracic_angle = Samples(self)[i].humerothoracic_angle
                             /\ melted.value = values[i][k]
                             /\ melted.biomechanical_dof = legend[k]

\* C13 witness: a corrected series of MaxSamples samples expanded into
\* 3 * MaxSamples rows, the three values of the last sample not all equal.
C13_Witness ==
    /\ Expanded
    /\ Len(Samples(self)) = MaxSamples
    /\ Len(ret.value) = 3 * MaxSamples
    /\ ret.value[1].biomechanical_dof = "plane of elevation"
    /\ ret.value[MaxSamples].value # ret.value[3 * MaxSamples].value

\* C14: every row of one call carries the same confidence, the value of
\* Deviation.confidence_total for the record, whatever the sample and the
\* degree of freedom.
C14_ConfidenceBroadcast ==
    Expanded =>
        \A r \in 1..Len(ret.value) : ret.value[r].confidence = confidence_total(self)

\* C14 witness: the rows of several samples, with a confidence lowered by a
\* frame that is not ISB-oriented.
C14_Witness ==
    /\ Expanded
    /\ Len(Samples(self)) = MaxSamples
    /\ ~is_isb_oriented(Pbsys(self))
    /\ \A r \in 1..Len(ret.value) : ret.value[r].confidence = ret.value[1].confidence
    /\ ret.value[1].confidence < get_segment_risk_quantification(Cbsys(self))
                                   * get_segment_risk_quantification(Cbsys(self))

\* What to_angle_series_dataframe reads of the record.
ReadByExpansion(s) ==
    <<s.data, s.joint, s.parent_biomech_sys, s.child_biomech_sys,
      s.parent_corrections, s.child_corrections, s.euler_angles_correction_callback>>

\* What a call of to_angle_series_dataframe(correction) returns on record s.
ExpansionOf(s, correction) ==
    Melt(AngleSeriesDataframe(s, correction), Legend(s, correction))

\* C15: a call that returns rows leaves self.data, the joint, the frames, the
\* corrections and the bound transform as they were, and a second call on the
\* record it leaves (same correction argument, recognised by the table it
\* gives) returns the same rows and leaves the same record.
C15_ExpansionIsIdempotent ==
    [][(ret'.op = "to_angle_series_dataframe" /\ ~ret'.raised) =>
          /\ ReadByExpansion(self') = ReadByExpansion(self)
          /\ row' = row
          /\ \E correction \in BOOLEAN :
                /\ ~to_angle_series_dataframe_raises(self', correction)
                /\ ExpansionOf(self', correction) = ret'.value
                /\ self'.melted_data = Some(ExpansionOf(self', correction))
                /\ self'.corrected_data = Some(AngleSeriesDataframe(self', correction))]_vars

\* C15 witness: an expanded record of MaxSamples samples whose corrected
\* values differ from the values of self.data, and whose expansion, computed
\* again, is the table it holds.
C15_Witness ==
    /\ Expanded
    /\ Len(Samples(self)) = MaxSamples
    /\ ~to_angle_series_dataframe_raises(self, TRUE)
    /\ ExpansionOf(self, TRUE) = ret.value
    /\ self.melted_data = Some(ret.value)
    /\ \E i \in 1..MaxSamples :
          Val(self.corrected_data)[i].value_dof # Samples(self)[i].value_dof

\* The transform fails on at least one sample of the series.
TransformFailsOnASample(s) ==
    /\ s.data # PyNone
    /\ \E i \in 1..Len(Samples(s)) : apply_correction_raises(s, Samples(s)[i].value_dof)

\* A table of corrected rows: its legend is the ISB one.
CorrectedRows(rows) ==
    /\ rows # <<>>
    /\ \E j \in JointType : rows[1].biomechanical_dof = isb_rotation_biomechanical_dof(j)[1]

\* C16: a call of to_angle_series_dataframe that raises returns nothing and
\* leaves the record, corrected_data and melted_data included, as it was; and
\* when the transform fails on some sample, a call never returns corrected
\* rows: the rows of part of the samples are never exposed.
C16_NoPartialOutput ==
    [][ret'.op = "to_angle_series_dataframe" =>
          /\ ret'.raised => (self' = self /\ ret'.value = PyNone)
          /\ TransformFailsOnASample(self) => (ret'.raised \/ ~CorrectedRows(ret'.value))]_vars

\* C16 witness: a validated record with its transform bound and a series whose
\* first sample the transform accepts and whose last it fails on; the
\* expansion raised and the record holds no table.
C16_Witness ==
    /\ ret = Raised("to_angle_series_dataframe")
    /\ self.joint # PyNone /\ ~confidence_total_raises(self)
    /\ self.euler_angles_correction_callback # PyNone
    /\ self.data # PyNone /\ Len(Samples(self)) = MaxSamples
    /\ ~apply_correction_raises(self, Samples(self)[1].value_dof)
    /\ apply_correction_raises(self, Samples(self)[MaxSamples].value_dof)
    /\ self.corrected_data = PyNone /\ self.melted_data = PyNone

\* C17 (as claimed): once check_segments_correction_validity has judged a
\* record without translation data not usable for rotation, every call of
\* to_angle_series_dataframe on it raises or returns no row.
C17_UnusableRecordNeverExpanded ==
    [][(/\ self.usable_rotation_data = PyFalse
        /\ row.translation = PyNone
        /\ ret'.op = "to_angle_series_dataframe") =>
           (ret'.raised \/ ret'.value = <<>>)]_vars

----------------------------------------------------------------------------
(* The confidence of the record.                                           *)

\* Both frames of the record are built.
FramesBuilt == self.parent_biomech_sys # PyNone /\ self.child_biomech_sys # PyNone

\* The frames a segment can be described with: ISB-oriented or not, origin on
\* an ISB axis or not.
FramesOf(segment) ==
    {BiomechCoordinateSystem(a, o, segment) :
        a \in {IsbAxes, LateralAxes}, o \in {IsbOrigin(segment), OffAxisOrigin}}

\* The fully ISB frame of a segment.
FullyIsbFrame(segment) == BiomechCoordinateSystem(IsbAxes, IsbOrigin(segment), segment)

\* The record with the frame of its parent, or of its child, replaced.
WithParentFrame(s, bsys) == [s EXCEPT !.parent_biomech_sys = Some(bsys)]

WithChildFrame(s, bsys) == [s EXCEPT !.child_biomech_sys = Some(bsys)]

----------------------------------------------------------------------------
(* The transform on a canonical record.                                    *)

\* A call of the transform has returned a triple.
TransformReturned ==
    /\ call.pc = "idle"
    /\ ret.op = TransformName /\ ~ret.raised
    /\ call.trace # <<>>

\* A frame that is ISB-oriented with its origin on an ISB axis.
CanonicalFrame(bsys) == is_isb_oriented(bsys) /\ is_origin_on_an_isb_axis(bsys)

\* A transform of a right-side record that declares no correction and whose
\* frames are both canonical has returned.
CanonicalRecordTransformed ==
    /\ TransformReturned
    /\ self.right_side /\ ~Callback.left_handed
    /\ extract_corrections(parent_segment) = PyNone
    /\ extract_corrections(child_segment) = PyNone
    /\ CanonicalFrame(Pbsys(self)) /\ CanonicalFrame(Cbsys(self))

\* The Euler sequence the record declares.
DeclaredSequence == Val(Val(self.joint).euler_sequence)

----------------------------------------------------------------------------
(* The unwrapping of the expansion.                                        *)

\* The rows returned carry the letters of the declared sequence as legend:
\* the call was made with correction=False.
RawRows(rows) ==
    /\ rows # <<>>
    /\ rows[1].biomechanical_dof \in {"x", "y", "z"}

\* The values of degree of freedom k in the rows returned, in sample order.
ReturnedChannel(k) ==
    ToSeq([i \in 1..Len(Samples(self)) |->
              MeltedRow(ret.value, Len(Samples(self)), i, k).value], Len(Samples(self)))

\* The transform of every sample of the series, degree of freedom k.
TransformedChannel(k) ==
    ToSeq([i \in 1..Len(Samples(self)) |->
              apply_correction_in_radians(self, Samples(self)[i].value_dof)[k]],
          Len(Samples(self)))

\* The raw series, degree of freedom k.
RawChannel(k) ==
    ToSeq([i \in 1..Len(Samples(self)) |-> Samples(self)[i].value_dof[k]],
          Len(Samples(self)))

\* C24: with correction=True each of the three channels returned is the
\* unwrapping (period 180) of the whole series of transformed samples of that
\* channel, and the legend is the ISB one; with correction=False the three
\* channels are the raw series, neither transformed nor unwrapped, and the
\* legend is the three letters of the declared Euler sequence.
C24_UnwrapAfterWholeSeries ==
    (Expanded /\ ret.value # <<>>) =>
        IF RawRows(ret.value)
        THEN \A k \in 1..3 :
                /\ ReturnedChannel(k) = RawChannel(k)
                /\ \A i \in 1..Len(Samples(self)) :
                      MeltedRow(ret.value, Len(Samples(self)), i, k).biomechanical_dof
                          = Letters(DeclaredSequence)[k]
        ELSE \A k \in 1..3 :
                /\ ReturnedChannel(k) = unwrap(TransformedChannel(k), 180)
                /\ \A i \in 1..Len(Samples(self)) :
                      MeltedRow(ret.value, Len(Samples(self)), i, k).biomechanical_dof
                          = isb_rotation_biomechanical_dof(Val(self.joint).joint_type)[k]

\* C24 witness: corrected rows in which the unwrapping moved a value of the
\* last sample away from what the transform gave for it.
C24_Witness ==
    /\ Expanded /\ ret.value # <<>>
    /\ ~RawRows(ret.value)
    /\ Len(Samples(self)) = MaxSamples
    /\ \E k \in 1..3 : ReturnedChannel(k)[MaxSamples] # TransformedChannel(k)[MaxSamples]

\* C24 witness without correction: raw rows that keep a jump of 180 degrees
\* between two samples, which an unwrapping would have removed.
C24_WitnessRaw ==
    /\ Expanded /\ RawRows(ret.value)
    /\ Len(Samples(self)) = MaxSamples
    /\ \E k \in 1..3 :
          /\ ReturnedChannel(k) = RawChannel(k)
          /\ unwrap(RawChannel(k), 180) # RawChannel(k)

----------------------------------------------------------------------------
(* The adapted Euler sequence.                                             *)

\* is_joint_euler_angle_ISB_with_adaptation_from_segment has returned.
AdaptationChecked ==
    ret.op = "is_joint_euler_angle_ISB_with_adaptation_from_segment" /\ ~ret.raised

\* C25 (as claimed): the declared sequence is compared with the adapted ISB
\* sequence after every minus sign is removed from it, so the answer is the
\* same for two records that differ only in the signs of their axes.
C25_AdaptationIgnoresAxisSigns ==
    AdaptationChecked =>
        ret.value = PyBool(StrReplaceMinus(AdaptedEulerSeq(self))
                              = Letters(DeclaredSequence))

----------------------------------------------------------------------------
(* What the bound transform depends on.                                    *)

\* What a call of the transform of record s gives for the angles rot.
TransformOutcome(s, rot) ==
    IF TransformRaises(s, rot) THEN Raised(TransformName)
    ELSE Returned(TransformName, EulerAnglesCorrection(s, rot))

\* C26 (as claimed): once the transform is bound, no operation on the record
\* other than set_rotation_correction_callback changes what it returns for
\* given angles.
C26_TransformBoundAtBinding ==
    [][(/\ self.euler_angles_correction_callback # PyNone
        /\ ret'.op # "set_rotation_correction_callback") =>
           \A rot \in Rots : TransformOutcome(self', rot) = TransformOutcome(self, rot)]_vars

----------------------------------------------------------------------------
(* The order of the operations.                                            *)

\* set_segments has built the frames of record s.
SegmentsSet(s) == s.parent_biomech_sys # PyNone /\ s.child_biomech_sys # PyNone

\* check_joint_validity has built a joint, import_data has loaded the series
\* and set_rotation_correction_callback has bound the transform.
ReadyForCorrection(s) ==
    /\ s.joint # PyNone
    /\ s.data # PyNone
    /\ s.euler_angles_correction_callback # PyNone

\* The step is a call of check_segments_correction_validity that returned.
ValidityReturns == ret'.op = "check_segments_correction_validity" /\ ~ret'.raised

\* C27 (as claimed): check_segments_correction_validity returns only after
\* set_segments; to_angle_series_dataframe(correction=True) returns only after
\* a joint was built, the series loaded and the transform bound, and in every
\* other order it raises and corrected_data and melted_data are unset.
C27_RequiredOrder ==
    [][/\ ValidityReturns => SegmentsSet(self)
       /\ (to_angle_series_dataframe(TRUE) /\ ~ReadyForCorrection(self)) =>
             /\ ret'.raised
             /\ self'.corrected_data = PyNone /\ self'.melted_data = PyNone]_vars

\* C27 (amended): check_segments_correction_validity returns only after
\* set_segments; on a series that is not empty,
\* to_angle_series_dataframe(correction=True) returns only after the frames
\* and a joint were built, the series loaded and the transform bound; in every
\* other order it raises and leaves the record, corrected_data and
\* melted_data included, as it was.
C27_RequiredOrderNonEmptySeries ==
    [][/\ ValidityReturns => SegmentsSet(self)
       /\ (/\ to_angle_series_dataframe(TRUE)
           /\ ~(ReadyForCorrection(self) /\ SegmentsSet(self))
           /\ (self.data = PyNone \/ Samples(self) # <<>>)) =>
             (ret'.raised /\ self' = self)]_vars

\* C27 witness: a record with its joint, its frames and a series loaded, but
\* no transform bound, on which a call with correction=True raised and left
\* the tables an earlier call without correction had stored.
C27_Witness ==
    /\ ret = Raised("to_angle_series_dataframe")
    /\ self.joint # PyNone /\ Val(self.joint).euler_sequence # PyNone
    /\ SegmentsSet(self)
    /\ self.data # PyNone /\ Samples(self) # <<>>
    /\ self.euler_angles_correction_callback = PyNone
    /\ self.corrected_data # PyNone /\ self.melted_data # PyNone

----------------------------------------------------------------------------
(* The parent's verdict and the child.                                     *)

\* The parent fails its own correction rule: ISB-oriented with its origin on
\* an ISB axis and a correction declared, or a global thorax whose
\* corrections contradict its correctable flag.
ParentFailsOwnRule ==
    \/ /\ ParentByFrame
       /\ RowIsb(parent_segment) /\ RowOnAxis(parent_segment)
       /\ Declared(parent_segment)
    \/ ParentIsThoraxGlobal /\ ~ThoraxGlobalVerdict

\* C28: when the parent fails its own correction rule, the usable_rotation_data
\* returned by check_segments_correction_validity is not true, whatever the
\* child segment, its frame and its corrections.
C28_FailedParentNeverUsable ==
    (CheckReturned /\ ParentFailsOwnRule) =>
        /\ ret.value[1] # PyTrue
        /\ self.usable_rotation_data # PyTrue

\* C28 witness: a parent that fails its rule under a child that is usable on
\* its own; the verdict is False.
C28_Witness ==
    /\ CheckReturned /\ ParentFailsOwnRule
    /\ self.child_segment_usable_for_rotation_data = PyTrue
    /\ ret.value[1] = PyFalse

\* C28 witness of the overwritten parent: the child's branch set the parent's
\* flag True after the parent failed its rule, and the verdict is None.
C28_WitnessOverwritten ==
    /\ CheckReturned /\ ParentFailsOwnRule
    /\ ChildOtherNotIsbOffAxis
    /\ self.parent_segment_usable_for_rotation_data = PyTrue
    /\ ret.value[1] = PyNone

\* The parent's blocks alone, run on a record that holds only its frames: what
\* the parent's segment type, frame, thorax-global and correctable flags and
\* corrections give.
ParentBlocksAlone ==
    ParentNotIsbOffAxisBlock(ParentNotIsbOnAxisBlock(
    ParentIsbOffAxisBlock(ParentIsbOnAxisBlock(
    ThoraxGlobalBlock([InitSelf EXCEPT !.parent_biomech_sys = self.parent_biomech_sys,
                                       !.child_biomech_sys = self.child_biomech_sys])))))

\* C29 (as claimed): after check_segments_correction_validity the parent's
\* usable-for-rotation flag, usable-for-translation flag and definition risk
\* are what the parent alone gives, whatever the child's segment type, frame
\* and corrections.
C29_ParentResultsIgnoreChild ==
    CheckReturned =>
        /\ self.parent_segment_usable_for_rotation_data
              = ParentBlocksAlone.parent_segment_usable_for_rotation_data
        /\ self.parent_segment_usable_for_translation_data
              = ParentBlocksAlone.parent_segment_usable_for_translation_data
        /\ self.parent_definition_risk = ParentBlocksAlone.parent_definition_risk

====
